---- MODULE Spec2Model ----
(***************************************************************************)
(* Model of InstanceGenerator.py: the generator of Weighted-Binary-String  *)
(* benchmark instances (generate_instances, its two samplers, the file     *)
(* naming helper) and its command-line driver (main).                      *)
(*                                                                         *)
(* Numbers: every weight is held as an integer count of hundredths (Scale  *)
(* units per 1.0).  np.round(x, 2) yields a multiple of 0.01, i.e. any     *)
(* integer of this representation; np.random.randint yields whole numbers, *)
(* i.e. multiples of Scale.  A weight bound is a Python number: its value  *)
(* in hundredths together with what decides its printed form (int or       *)
(* float, and the sign of a float zero).                                   *)
(***************************************************************************)
EXTENDS Integers, Sequences, FiniteSets, TLC

VARIABLES
    pc,          \* position of the running program
    caller,      \* "none", "api" (generate_instances called directly), "cli" (main)
                 \* or "batch" (main started by Run_instance_generator.py)
    argv,        \* the option list main was started with (<<>> for an api call)
    batch,       \* Run_instance_generator.py: the command lines its loop has yet to run
    call,        \* the arguments of the running generate_instances call
    cell,        \* 1-based position of the outer loop in `combinations`
    inst,        \* iterations of the inner loop completed for the current cell
    overview_fp, \* path of the open overview file, or None
    weights,     \* the sampler's local array, then the instance's weight vector
    redrawn,     \* positions the no_zero loop has re-drawn for the current sample
    csv,         \* output_dir: index N |-> content of instance_N.csv
    overview,    \* output_dir: overview path |-> sequence of written blocks
    dir0,        \* DOMAIN csv when the running call was entered
    generated    \* instances produced by the running call, in generation order

vars == <<pc, caller, argv, batch, call, cell, inst, overview_fp, weights, redrawn,
          csv, overview, dir0, generated>>

----------------------------------------------------------------------------
(* Bounds of the model *)

MaxLen == 2       \* longest gene length of a sampled instance
MaxInst == 2      \* largest num_instances
MaxCells == 4     \* most sweep cells of one call
MaxPre == 2       \* instance_<N>.csv may pre-exist for N < MaxPre
MaxOpts == 2      \* options on the command line besides the sweep lists

(* Program constants *)

Scale == 100      \* np.round(..., 2): two decimals, hundredths per unit

\* Python None, and a present optional value
None == <<>>
Some(x) == <<x>>

----------------------------------------------------------------------------
(* numpy / Python primitives, as the code uses them *)

Min2(a, b) == IF a <= b THEN a ELSE b
Max2(a, b) == IF a <= b THEN b ELSE a

\* int(x) of a number held in hundredths: truncation toward zero
IntTrunc(x) == IF x >= 0 THEN (x \div Scale) * Scale ELSE -(((-x) \div Scale) * Scale)

\* np.random.randint(low, high, size) raises ValueError for a negative size,
\* and ValueError("low >= high") unless no sample is taken
RandIntRaises(low, high, size) == size < 0 \/ (size # 0 /\ IntTrunc(low) >= IntTrunc(high))

\* np.random.uniform(low, high, size) raises ValueError for a negative size
UniformRaises(size) == size < 0

\* the values np.random.randint(low, high) can return: whole numbers in [low, high)
RandIntSet(low, high) ==
    {v \in IntTrunc(low)..(IntTrunc(high) - 1) : v % Scale = 0}

\* the values np.round(np.random.uniform(low, high), 2) can return
UniformSet(low, high) == Min2(low, high)..Max2(low, high)

\* arrays of n values drawn from S
Vectors(n, S) == [1..n -> S]

\* round(x) of the number num/den, num >= 0, den > 0: ties go to the even integer
RoundHalfEven(num, den) ==
    LET q == num \div den
        r == num % den
    IN  IF 2 * r < den THEN q
        ELSE IF 2 * r > den THEN q + 1
        ELSE IF q % 2 = 0 THEN q ELSE q + 1

\* floor(log2(num/den)) for num, den > 0: the binary exponent of a double
RECURSIVE Log2Floor(_, _)
Log2Floor(num, den) ==
    IF num >= 2 * den THEN Log2Floor(num, 2 * den) + 1
    ELSE IF num < den THEN Log2Floor(2 * num, den) - 1
    ELSE 0

\* 2^s modulo m
RECURSIVE Pow2Mod(_, _)
Pow2Mod(s, m) == IF s = 0 THEN 1 % m ELSE (2 * Pow2Mod(s - 1, m)) % m

\* the double p / 100 is the nearest multiple of 2^(a-52) to the quotient,
\* a == Log2Floor(p, 100); it differs from the quotient by
\* FloatQuotientErr(p) / (100 * 2^(52-a))
FloatQuotientErr(p) ==
    LET r == ((p % 100) * Pow2Mod(52 - Log2Floor(p, 100), 100)) % 100
    IN  IF r < 50 THEN -r ELSE 100 - r

\* a Python int, a Python float of the given hundredths, and the float -0.0
PyInt(v) == [val |-> v * Scale, float |-> FALSE, negzero |-> FALSE]
PyFloat(h) == [val |-> h, float |-> TRUE, negzero |-> FALSE]
NegZero == [val |-> 0, float |-> TRUE, negzero |-> TRUE]

\* Python str operations (the characters of a text are those up to 0xff)
Char(s, i) == SubSeq(s, i, i)

Drop(s, n) == SubSeq(s, n + 1, Len(s))

\* c in chars
InStr(c, chars) == \E i \in 1..Len(chars) : Char(chars, i) = c

\* s.startswith(prefix), s.endswith(suffix)
StartsWith(s, prefix) == Len(prefix) <= Len(s) /\ SubSeq(s, 1, Len(prefix)) = prefix

EndsWith(s, suffix) ==
    Len(suffix) <= Len(s) /\ SubSeq(s, Len(s) - Len(suffix) + 1, Len(s)) = suffix

\* s.find(c) + 1: the first position of the character c, 0 when it does not occur
Find(s, c) ==
    LET I == {i \in 1..Len(s) : Char(s, i) = c}
    IN  IF I = {} THEN 0 ELSE CHOOSE i \in I : \A j \in I : i <= j

\* s.strip(chars)
RECURSIVE Strip(_, _)
Strip(s, chars) ==
    IF s = "" THEN s
    ELSE IF InStr(Char(s, 1), chars) THEN Strip(Drop(s, 1), chars)
    ELSE IF InStr(Char(s, Len(s)), chars) THEN Strip(SubSeq(s, 1, Len(s) - 1), chars)
    ELSE s

\* s.split(sep), sep one character
RECURSIVE Split(_, _)
Split(s, sep) ==
    IF Find(s, sep) = 0 THEN <<s>>
    ELSE <<SubSeq(s, 1, Find(s, sep) - 1)>> \o Split(Drop(s, Find(s, sep)), sep)

\* s.lower()
Lower(s) ==
    LET upper == "ABCDEFGHIJKLMNOPQRSTUVWXYZ"
        lower == "abcdefghijklmnopqrstuvwxyz"
        low(c) == IF InStr(c, upper) THEN Char(lower, Find(upper, c)) ELSE c
        RECURSIVE go(_)
        go(n) == IF n = 0 THEN "" ELSE go(n - 1) \o low(Char(s, n))
    IN  go(Len(s))

\* os.path.join(a, b) for a relative b
PathJoin(a, b) == IF a = "" \/ EndsWith(a, "/") THEN a \o b ELSE a \o "/" \o b

\* str(n) of an int
Digit(d) == SubSeq("0123456789", d + 1, d + 1)

RECURSIVE NatStr(_)
NatStr(n) == IF n < 10 THEN Digit(n) ELSE NatStr(n \div 10) \o Digit(n % 10)

IntStr(n) == IF n < 0 THEN "-" \o NatStr(-n) ELSE NatStr(n)

\* str(x) of a float that is a multiple of 0.01: shortest decimal form, at
\* least one decimal, the sign of a zero kept
FloatStr(x) ==
    LET a == IF x.val < 0 THEN -x.val ELSE x.val
        h == a % Scale
    IN  (IF x.val < 0 \/ x.negzero THEN "-" ELSE "")
        \o NatStr(a \div Scale) \o "."
        \o (IF h % 10 = 0 THEN Digit(h \div 10) ELSE Digit(h \div 10) \o Digit(h % 10))

\* f"{x}" of a weight bound
PyStr(x) == IF x.float THEN FloatStr(x) ELSE IntStr(x.val \div Scale)

----------------------------------------------------------------------------
(* _sample_weights *)

SampleWeightsRaises(min_w, max_w, length, discrete) ==
    IF discrete THEN RandIntRaises(min_w, max_w + Scale, length) ELSE UniformRaises(length)

SampleWeightsSet(min_w, max_w, discrete) ==
    IF discrete THEN RandIntSet(min_w, max_w + Scale) ELSE UniformSet(min_w, max_w)

SampleWeightsDraws(min_w, max_w, length, discrete) ==
    Vectors(length, SampleWeightsSet(min_w, max_w, discrete))

(* _sample_with_ratio *)

\* pos_cnt = int(round(pos_percentage / 100 * length)): the quotient and the
\* product are doubles.  Off a tie the double product rounds as the exact
\* one.  On an exact tie k + 1/2 the product is the tie itself only when the
\* error carried over from the quotient is within half a unit in the last
\* place of the tie (a quarter below a power of two); otherwise it lies
\* beside the tie and rounds to that side.
RoundFloatProduct(p, l) ==
    LET n == p * l
        k == n \div 100
        a == Log2Floor(p, 100)
        d == FloatQuotientErr(p)
        g == Log2Floor(2 * k + 1, 2)
        err == (IF d < 0 THEN -d ELSE d) * l
                   * (IF d < 0 /\ 2 * k + 1 = 2^(g + 1) THEN 4 ELSE 2)
    IN  IF n % 100 # 50 THEN RoundHalfEven(n, 100)
        ELSE IF err <= 100 * 2^(g - a) THEN RoundHalfEven(n, 100)
        ELSE IF d > 0 THEN k + 1 ELSE k

\* (division, product and round are symmetric in the sign)
PosCount(pos_percentage, length) ==
    LET p == IF pos_percentage < 0 THEN -pos_percentage ELSE pos_percentage
        l == IF length < 0 THEN -length ELSE length
    IN  IF (pos_percentage < 0) # (length < 0) THEN -RoundFloatProduct(p, l)
        ELSE RoundFloatProduct(p, l)

PositivePart(max_w, discrete, no_zero) ==
    IF discrete THEN RandIntSet(IF no_zero THEN Scale ELSE 0, max_w + Scale)
    ELSE UniformSet(0, max_w)

NegativePart(min_w, discrete) ==
    IF discrete THEN RandIntSet(min_w, 0) ELSE UniformSet(min_w, 0)

SampleWithRatioRaises(min_w, max_w, length, pos_percentage, discrete, no_zero) ==
    LET pos_cnt == PosCount(pos_percentage, length)
        neg_cnt == length - pos_cnt
    IN  \/ length < 0
        \/ IF discrete
           THEN \/ RandIntRaises(IF no_zero THEN Scale ELSE 0, max_w + Scale, pos_cnt)
                \/ RandIntRaises(min_w, 0, neg_cnt)
           ELSE UniformRaises(pos_cnt) \/ UniformRaises(neg_cnt)

SampleWithRatioDraws(min_w, max_w, length, pos_percentage, discrete, no_zero) ==
    LET pos_cnt == PosCount(pos_percentage, length)
        pos == PositivePart(max_w, discrete, no_zero)
        neg == NegativePart(min_w, discrete)
    IN  { w \in Vectors(length, pos \cup neg) :
            \E pos_idx \in SUBSET (1..length) :
                /\ Cardinality(pos_idx) = pos_cnt
                /\ \A i \in 1..length :
                      IF i \in pos_idx THEN w[i] \in pos ELSE w[i] \in neg }

\* the values the ratio sampler's no_zero loop writes into the masked positions
RatioResampleSet(min_w, max_w, discrete, mask) ==
    IF discrete
    THEN RandIntSet(IF mask # {} THEN min_w ELSE Scale, max_w + Scale)
    ELSE UniformSet(min_w, max_w)

(* both samplers: mask = weights == 0, weights[mask] = ... *)

\* faulty variant, for mutation checks: the mask misses the last position
ZeroMaskButLast(w) == {i \in DOMAIN w : w[i] = 0 /\ i < Len(w)}

ZeroMask(w) == {i \in DOMAIN w : w[i] = 0}

\* faulty variant, for mutation checks: a pass of the loop draws the whole array again
RedrawAll(w, mask, S) == Vectors(Len(w), S)

Redraw(w, mask, S) ==
    { [i \in DOMAIN w |-> IF i \in mask THEN f[i] ELSE w[i]] : f \in [mask -> S] }

----------------------------------------------------------------------------
(* generate_instances: derived values and paths *)

\* faulty variant, for mutation checks: a zero weight gets bit 1
OptimalGeneNonNegative(w) == [i \in DOMAIN w |-> IF w[i] >= 0 THEN 1 ELSE 0]

OptimalGene(w) == [i \in DOMAIN w |-> IF w[i] > 0 THEN 1 ELSE 0]

RECURSIVE SumSelected(_, _, _)
SumSelected(w, gene, n) ==
    IF n = 0 THEN 0
    ELSE SumSelected(w, gene, n - 1) + (IF gene[n] = 1 THEN w[n] ELSE 0)

\* faulty variant, for mutation checks: the fitness sums every weight
MaxFitnessAllWeights(w, gene) == SumSelected(w, [i \in DOMAIN w |-> 1], Len(w))

MaxFitness(w, gene) == SumSelected(w, gene, Len(w))

\* itertools.product(min_weights, max_weights, gene_lengths): the last list
\* varies fastest
Combinations(mins, maxs, lens) ==
    [c \in 1..(Len(mins) * Len(maxs) * Len(lens)) |->
        [min_w  |-> mins[((c - 1) \div (Len(maxs) * Len(lens))) + 1],
         max_w  |-> maxs[(((c - 1) \div Len(lens)) % Len(maxs)) + 1],
         length |-> lens[((c - 1) % Len(lens)) + 1]]]

\* os.path.join(output_dir, f"Instance_length_{length}_weights_{min_w}_to_{max_w}_{D|C}.txt")
OverviewPath(output_dir, length, min_w, max_w, discrete) ==
    PathJoin(output_dir,
             "Instance_length_" \o IntStr(length)
                 \o "_weights_" \o PyStr(min_w) \o "_to_" \o PyStr(max_w)
                 \o "_" \o (IF discrete THEN "D" ELSE "C") \o ".txt")

UseOverview(fmt) == fmt \in {0, 2}
\* faulty variant, for mutation checks: fmt 2 writes no per-instance file
UseSingleOnlyFmt1(fmt) == fmt = 1

UseSingle(fmt) == fmt \in {1, 2}

RECURSIVE ScanIndex(_, _)
ScanIndex(i, existing) == IF i \in existing THEN ScanIndex(i + 1, existing) ELSE i

\* faulty variant, for mutation checks: the index is the number of existing files
NextAvailableIndexByCount(existing) == Cardinality(existing)

\* _next_available_index: the first i such that instance_i.csv does not exist
NextAvailableIndex(existing) == ScanIndex(0, existing)

----------------------------------------------------------------------------
(* main: the command line.  argv is sys.argv[1:], a sequence of strings. *)

Opt(name, val) == [opt |-> name, val |-> val]

\* faulty variant, for mutation checks: discrete defaults to false
DefaultArgsContinuous ==
    [output_dir     |-> "Instances",
     num_instances  |-> 1,
     min_weights    |-> <<PyFloat(-10 * Scale)>>,
     max_weights    |-> <<PyFloat(10 * Scale)>>,
     gene_lengths   |-> <<1000>>,
     discrete       |-> FALSE,
     fmt            |-> 1,
     no_zero        |-> FALSE,
     pos_percentage |-> None]

\* the defaults main starts from
DefaultArgs ==
    [output_dir     |-> "Instances",
     num_instances  |-> 1,
     min_weights    |-> <<PyFloat(-10 * Scale)>>,
     max_weights    |-> <<PyFloat(10 * Scale)>>,
     gene_lengths   |-> <<1000>>,
     discrete       |-> TRUE,
     fmt            |-> 1,
     no_zero        |-> FALSE,
     pos_percentage |-> None]

\* the option tables main hands to getopt.getopt
shortopts == "n:a:b:l:o:wdzp:f:"

longopts ==
    <<"num_instances=", "min_weights=", "max_weights=", "gene_lengths=", "output_dir=",
      "discrete", "no_zero", "pos_percentage=", "format=">>

\* getopt.short_has_arg: raises unless the letter occurs in shortopts; the
\* letter takes an argument when a ":" follows its first occurrence
ShortRaises(letter) == letter = ":" \/ ~InStr(letter, shortopts)

ShortHasArg(letter) == Char(shortopts, Find(shortopts, letter) + 1) = ":"

\* getopt.long_has_args: the table entries the given name is a prefix of
Possibilities(name) ==
    {longopts[i] : i \in {j \in 1..Len(longopts) : StartsWith(longopts[j], name)}}

LongExact(name) == name \in Possibilities(name) \/ (name \o "=") \in Possibilities(name)

\* "not recognized" or "not a unique prefix"
LongRaises(name) ==
    \/ Possibilities(name) = {}
    \/ ~LongExact(name) /\ Cardinality(Possibilities(name)) > 1

unique_match(name) == CHOOSE o \in Possibilities(name) : TRUE

LongHasArg(name) ==
    IF name \in Possibilities(name) THEN FALSE
    ELSE IF (name \o "=") \in Possibilities(name) THEN TRUE
    ELSE EndsWith(unique_match(name), "=")

\* the name getopt reports: an exact name as given, a unique prefix completed
\* to the table entry (its "=" dropped)
LongName(name) ==
    IF LongExact(name) THEN name
    ELSE IF EndsWith(unique_match(name), "=")
         THEN SubSeq(unique_match(name), 1, Len(unique_match(name)) - 1)
         ELSE unique_match(name)

\* the result of a parsing step: GetoptError raised, or the (option, value)
\* pairs found and the arguments left
GetoptError == [err |-> TRUE, opts |-> <<>>, args |-> <<>>]
Parsed(opts, args) == [err |-> FALSE, opts |-> opts, args |-> args]

\* getopt.do_longs, once opt is split at its first "=": name, and optarg
\* (None without "=")
LongOption(name, optarg, args) ==
    IF LongRaises(name) THEN GetoptError
    ELSE IF LongHasArg(name)
    THEN IF optarg # None THEN Parsed(<<Opt("--" \o LongName(name), optarg[1])>>, args)
         ELSE IF args = <<>> THEN GetoptError
         ELSE Parsed(<<Opt("--" \o LongName(name), Head(args))>>, Tail(args))
    ELSE IF optarg # None THEN GetoptError
    ELSE Parsed(<<Opt("--" \o LongName(name), "")>>, args)

\* getopt.do_longs: opt is the argument without its "--"
do_longs(opt, args) ==
    IF Find(opt, "=") = 0 THEN LongOption(opt, None, args)
    ELSE LongOption(SubSeq(opt, 1, Find(opt, "=") - 1), Some(Drop(opt, Find(opt, "="))), args)

\* opts.append(...) in front of what the rest of the parsing gives
Prepend(opts, more) ==
    IF more.err THEN GetoptError ELSE Parsed(opts \o more.opts, more.args)

\* getopt.do_shorts: optstring is the argument without its "-"
RECURSIVE do_shorts(_, _)
do_shorts(optstring, args) ==
    IF optstring = "" THEN Parsed(<<>>, args)
    ELSE IF ShortRaises(Char(optstring, 1)) THEN GetoptError
    ELSE IF ShortHasArg(Char(optstring, 1))
    THEN IF Len(optstring) > 1
         THEN Parsed(<<Opt("-" \o Char(optstring, 1), Drop(optstring, 1))>>, args)
         ELSE IF args = <<>> THEN GetoptError
         ELSE Parsed(<<Opt("-" \o Char(optstring, 1), Head(args))>>, Tail(args))
    ELSE Prepend(<<Opt("-" \o Char(optstring, 1), "")>>, do_shorts(Drop(optstring, 1), args))

\* getopt.getopt(args, shortopts, longopts): options are read up to "--" or
\* the first argument that is no option
RECURSIVE getopt(_)
RECURSIVE GetoptRest(_)
GetoptRest(first) ==
    IF first.err THEN GetoptError ELSE Prepend(first.opts, getopt(first.args))

getopt(args) ==
    IF args = <<>> THEN Parsed(<<>>, args)
    ELSE IF ~StartsWith(Head(args), "-") \/ Head(args) = "-" THEN Parsed(<<>>, args)
    ELSE IF Head(args) = "--" THEN Parsed(<<>>, Tail(args))
    ELSE IF StartsWith(Head(args), "--")
    THEN GetoptRest(do_longs(Drop(Head(args), 2), Tail(args)))
    ELSE GetoptRest(do_shorts(Drop(Head(args), 1), Tail(args)))

GetoptRaises(av) == getopt(av).err

\* opts, as getopt returns them
GetoptOpts(av) == getopt(av).opts

(* int(text) and float(text).  A conversion either raises ValueError, or     *)
(* gives a number the model holds, or gives a number beyond the model's      *)
(* numbers (more than two decimals, inf, nan, seven digits or more).         *)

Value(v) == [kind |-> "value", val |-> v]
ValueError(v) == [kind |-> "ValueError", val |-> v]
Beyond(v) == [kind |-> "beyond", val |-> v]

\* the characters int() and float() strip from both ends of the text: the
\* ASCII white space (space, \t, \n, vertical tab 0x0b, \f, \r) and, of the
\* characters up to 0xff, the white space outside ASCII (next line 0x85,
\* no-break space 0xa0)
VerticalTab == ""

NextLine == ""

NoBreakSpace == " "

Whitespace == " \t\n\r\f" \o VerticalTab \o NextLine \o NoBreakSpace

IsDigit(c) == c # "" /\ InStr(c, "0123456789")

\* digit ("_"? digit)*
IsDigitPart(s) ==
    /\ s # ""
    /\ IsDigit(Char(s, 1))
    /\ IsDigit(Char(s, Len(s)))
    /\ \A i \in 1..(Len(s) - 1) :
          IsDigit(Char(s, i)) \/ (Char(s, i) = "_" /\ Char(s, i + 1) # "_")

\* the digits among the first n characters of s
RECURSIVE DigitCount(_, _)
DigitCount(s, n) ==
    IF n = 0 THEN 0 ELSE DigitCount(s, n - 1) + (IF IsDigit(Char(s, n)) THEN 1 ELSE 0)

\* the number written by the digits among the first n characters of s, -1 when
\* it has seven digits or more
AppendDigit(v, c) ==
    IF v < 0 \/ v >= 100000 THEN -1 ELSE 10 * v + (Find("0123456789", c) - 1)

RECURSIVE NatOf(_, _)
NatOf(s, n) ==
    IF n = 0 THEN 0
    ELSE IF ~IsDigit(Char(s, n)) THEN NatOf(s, n - 1)
    ELSE AppendDigit(NatOf(s, n - 1), Char(s, n))

Signed(s) == s # "" /\ Char(s, 1) \in {"+", "-"}

\* s without its leading sign
Unsigned(s) == IF Signed(s) THEN Drop(s, 1) ELSE s

\* s up to position i, and s after position i (whole and `none` when i = 0)
Before(s, i) == IF i = 0 THEN s ELSE SubSeq(s, 1, i - 1)
After(s, i, none) == IF i = 0 THEN none ELSE Drop(s, i)

\* int(text): [sign] digits, surrounded by whitespace
IntDigits(neg, body, v) ==
    IF ~IsDigitPart(body) THEN ValueError(0)
    ELSE IF v < 0 THEN Beyond(0)
    ELSE Value(IF neg THEN -v ELSE v)

IntStripped(s) == IntDigits(StartsWith(s, "-"), Unsigned(s), NatOf(Unsigned(s), Len(Unsigned(s))))

IntOf(text) == IntStripped(Strip(text, Whitespace))

\* float(text): [sign] (inf | infinity | nan | digits [. [digits]] [e [sign] digits]
\* | . digits [e [sign] digits]), surrounded by whitespace; the result in
\* hundredths.
\* the value is digits * 10^k hundredths
FloatScaled(neg, digits, k) ==
    IF digits = 0 THEN Value(IF neg THEN NegZero ELSE PyFloat(0))
    ELSE IF k >= 0
    THEN IF k <= 8 /\ digits <= 99999999 \div 10^k
         THEN Value(PyFloat(IF neg THEN -(digits * 10^k) ELSE digits * 10^k))
         ELSE Beyond(PyFloat(0))
    ELSE IF k >= -8 /\ digits % 10^(-k) = 0
         THEN Value(PyFloat(IF neg THEN -(digits \div 10^(-k)) ELSE digits \div 10^(-k)))
         ELSE Beyond(PyFloat(0))

\* digits: the digits of the mantissa; decimals: how many follow the point;
\* expval: the exponent without its sign
FloatNumber(neg, digits, decimals, expneg, expval) ==
    IF digits < 0 \/ expval < 0 THEN Beyond(PyFloat(0))
    ELSE FloatScaled(neg, digits, (IF expneg THEN -expval ELSE expval) - decimals + 2)

\* ip, fp: the text before and after the point; expbody: the exponent
\* without its sign
FloatParts(neg, ip, fp, expneg, expbody) ==
    IF /\ ip = "" \/ IsDigitPart(ip)
       /\ fp = "" \/ IsDigitPart(fp)
       /\ ip # "" \/ fp # ""
       /\ IsDigitPart(expbody)
    THEN FloatNumber(neg, NatOf(ip \o fp, Len(ip \o fp)), DigitCount(fp, Len(fp)),
                     expneg, NatOf(expbody, Len(expbody)))
    ELSE ValueError(PyFloat(0))

\* mant, exp: the text before and after the exponent mark ("0" without one)
FloatMantissa(neg, mant, exp) ==
    FloatParts(neg, Before(mant, Find(mant, ".")), After(mant, Find(mant, "."), ""),
               StartsWith(exp, "-"), Unsigned(exp))

FloatUnsigned(neg, body) ==
    IF Lower(body) \in {"inf", "infinity", "nan"} THEN Beyond(PyFloat(0))
    ELSE FloatMantissa(neg, Before(body, Find(Lower(body), "e")),
                       After(body, Find(Lower(body), "e"), "0"))

FloatStripped(s) == FloatUnsigned(StartsWith(s, "-"), Unsigned(s))

FloatOf(text) == FloatStripped(Strip(text, Whitespace))

\* list(map(...)) over the conversions r of the items: the first ValueError
\* is raised
ListOf(r) ==
    LET vals == [k \in 1..Len(r) |-> r[k].val]
    IN  IF \E k \in 1..Len(r) : r[k].kind = "ValueError" THEN ValueError(vals)
        ELSE IF \E k \in 1..Len(r) : r[k].kind = "beyond" THEN Beyond(vals)
        ELSE Value(vals)

\* list(map(float, val.strip("[]").split(",")))
FloatList(val) ==
    LET items == Split(Strip(val, "[]"), ",")
    IN  ListOf([k \in 1..Len(items) |-> FloatOf(items[k])])

\* list(map(int, val.strip("[]").split(",")))
IntList(val) ==
    LET items == Split(Strip(val, "[]"), ",")
    IN  ListOf([k \in 1..Len(items) |-> IntOf(items[k])])

\* float(val) of a percentage: the model holds whole percentages
WholePercentage(r) ==
    IF r.kind = "value" /\ r.val.val % Scale # 0 THEN Beyond(None)
    ELSE [kind |-> r.kind, val |-> Some(r.val.val \div Scale)]

Percentage(val) == WholePercentage(FloatOf(val))

\* args[key] = <conversion>: st.status is "ok" or "ValueError" (a conversion
\* raised); st.beyond names the arguments that hold a number beyond the
\* model's
Store(st, key, r) ==
    IF st.status = "ValueError" \/ r.kind = "ValueError"
    THEN [st EXCEPT !.status = "ValueError"]
    ELSE IF r.kind = "beyond" THEN [st EXCEPT !.beyond = @ \cup {key}]
    ELSE [st EXCEPT !.args = [@ EXCEPT ![key] = r.val], !.beyond = @ \ {key}]

\* one iteration of the loop over opts
ParseOption(st, o) ==
    IF o.opt \in {"-n", "--num_instances"} THEN Store(st, "num_instances", IntOf(o.val))
    ELSE IF o.opt \in {"-a", "--min_weights"} THEN Store(st, "min_weights", FloatList(o.val))
    ELSE IF o.opt \in {"-b", "--max_weights"} THEN Store(st, "max_weights", FloatList(o.val))
    ELSE IF o.opt \in {"-l", "--gene_lengths"} THEN Store(st, "gene_lengths", IntList(o.val))
    ELSE IF o.opt \in {"-o", "--output_dir"} THEN Store(st, "output_dir", Value(o.val))
    ELSE IF o.opt \in {"-w", "--discrete"} THEN Store(st, "discrete", Value(TRUE))
    ELSE IF o.opt \in {"-z", "--no_zero"} THEN Store(st, "no_zero", Value(TRUE))
    ELSE IF o.opt \in {"-p", "--pos_percentage"} THEN Store(st, "pos_percentage", Percentage(o.val))
    ELSE IF o.opt \in {"-f", "--format"} THEN Store(st, "fmt", IntOf(o.val))
    ELSE st

RECURSIVE ParseOptions(_, _, _)
ParseOptions(st, opts, n) ==
    IF n = 0 THEN st ELSE ParseOption(ParseOptions(st, opts, n - 1), opts[n])

\* the outcome of the option loop
LoopOutcome(st) ==
    IF st.status = "ValueError" THEN [status |-> "ValueError", args |-> st.args]
    ELSE IF st.beyond # {} THEN [status |-> "beyond", args |-> st.args]
    ELSE [status |-> "ok", args |-> st.args]

\* the outcome of main after getopt returned or raised
GetoptOutcome(g) ==
    IF g.err THEN [status |-> "GetoptError", args |-> DefaultArgs]
    ELSE LoopOutcome(ParseOptions([status |-> "ok", beyond |-> {}, args |-> DefaultArgs],
                                  g.opts, Len(g.opts)))

\* main up to its call of generate_instances: "GetoptError", "ValueError", or
\* the arguments of the call ("ok"; "beyond" when they hold a number beyond the
\* model's)
MainOutcome(av) == GetoptOutcome(getopt(av))

----------------------------------------------------------------------------
(* Inputs of the model *)

SeqsUpTo(n, S) == UNION {[1..k -> S] : k \in 1..n}

Percentages == {50, 100}

\* bounds of a weight range: as whole numbers (ints) for integer weights, as
\* hundredths (floats) for real-valued weights
RangeMins == {-1, 0, 2}
RangeMaxs == {0, 2}
Bound(v, discrete) == IF discrete THEN PyInt(v) ELSE PyFloat(v)

\* calls that draw one instance from one cell, over every kind of range
SamplerCalls ==
    { [output_dir     |-> "Instances",
       num_instances  |-> 1,
       min_weights    |-> <<Bound(lo, d)>>,
       max_weights    |-> <<Bound(hi, d)>>,
       gene_lengths   |-> <<n>>,
       discrete       |-> d,
       fmt            |-> 1,
       no_zero        |-> z,
       pos_percentage |-> p] :
      lo \in RangeMins, hi \in RangeMaxs, n \in 0..MaxLen,
      d \in BOOLEAN, z \in BOOLEAN, p \in {None} \cup {Some(q) : q \in Percentages} }

\* the parameter lists of a sweep of at most MaxCells cells
\* lower bounds, upper bounds and gene lengths of a sweep: the lower bounds of
\* a group are equal numbers that print differently (1 and 1.0, 0.0 and -0.0)
SweepBounds ==
    { <<{PyInt(1), PyFloat(Scale)}, {PyInt(1)}, {0, 1}>>,
      <<{PyFloat(0), NegZero}, {PyInt(0)}, {1}>> }

SweepLists ==
    UNION { { t \in SeqsUpTo(MaxCells, b[1]) \X SeqsUpTo(MaxCells, b[2])
                    \X SeqsUpTo(MaxCells, b[3]) :
                Len(t[1]) * Len(t[2]) * Len(t[3]) <= MaxCells } : b \in SweepBounds }

\* sweeps over parameter lists (repeated values included), every format
SweepCalls ==
    { [output_dir     |-> "Instances",
       num_instances  |-> k,
       min_weights    |-> t[1],
       max_weights    |-> t[2],
       gene_lengths   |-> t[3],
       discrete       |-> d,
       fmt            |-> f,
       no_zero        |-> FALSE,
       pos_percentage |-> None] :
      k \in 0..MaxInst, t \in SweepLists, d \in BOOLEAN, f \in 0..2 }

ApiCalls == SamplerCalls \cup SweepCalls

\* command lines: the sweep lists, then up to MaxOpts further groups of arguments
SweepOpts == <<"-a", "[-1]", "-b", "[1]", "-l", "[1]">>

\* ("--disc" and "--form" are unique prefixes, "--n" is a prefix of two names,
\* "-x" is unknown, "--discrete=1" gives a flag a value, "-n" takes the next
\* argument or lacks one, "--" ends the options)
ExtraOpts ==
    {<<"-w">>, <<"--disc">>, <<"-d">>, <<"-zd">>, <<"-p", "50">>, <<"--form=0">>,
     <<"-n", VerticalTab \o "2" \o NoBreakSpace>>, <<"-x">>, <<"--n", "2">>,
     <<"--discrete=1">>, <<"-n">>, <<"--">>, <<"-l", "[1,x]">>}

RECURSIVE Flatten(_)
Flatten(groups) == IF groups = <<>> THEN <<>> ELSE Head(groups) \o Flatten(Tail(groups))

Argvs ==
    {SweepOpts} \cup {SweepOpts \o Flatten(extra) : extra \in SeqsUpTo(MaxOpts, ExtraOpts)}

----------------------------------------------------------------------------
(* Run_instance_generator.py *)

\* list(range(start, end + 1, step))
GeneRange(start, end, step) ==
    IF end < start THEN <<>>
    ELSE [k \in 1..(((end - start) \div step) + 1) |-> start + (k - 1) * step]

\* cmd[2:]: the arguments of one iteration's command line (POS_PERCENTAGE is
\* None: no --pos_percentage option)
BatchCmd(output_dir, num_instances, min_weights, max_weights, length) ==
    <<"--output_dir", output_dir,
      "--num_instances", IntStr(num_instances),
      "--min_weights", min_weights,
      "--max_weights", max_weights,
      "--gene_lengths", "[" \o IntStr(length) \o "]",
      "--no_zero",
      "--discrete">>

\* the driver's fixed parameters and gene-length sweep, drawn small: the
\* command lines of its loop, in order
BatchRuns ==
    { [k \in 1..Len(GeneRange(start, end, step)) |->
          BatchCmd("instance", 1, "[-1]", "[1]", GeneRange(start, end, step)[k])] :
      start \in 0..1, end \in 0..MaxLen, step \in 1..2 }

\* a file left in output_dir by an earlier run
OldFile ==
    [max_fitness |-> -1, length |-> 0, min_w |-> PyInt(0), max_w |-> PyInt(0), discrete |-> TRUE,
     no_zero |-> FALSE, pos_percentage |-> None, genes |-> <<>>, weights |-> <<>>]

NoCall == [DefaultArgs EXCEPT !.num_instances = 0]

----------------------------------------------------------------------------
(* The state machine *)

Init ==
    /\ pc = "idle"
    /\ caller = "none"
    /\ argv = <<>>
    /\ batch = <<>>
    /\ call = NoCall
    /\ cell = 0
    /\ inst = 0
    /\ overview_fp = None
    /\ weights = <<>>
    /\ redrawn = {}
    /\ \E pre \in SUBSET (0..(MaxPre - 1)) : csv = [i \in pre |-> OldFile]
    /\ overview = <<>>
    /\ dir0 = DOMAIN csv
    /\ generated = <<>>

combinations == Combinations(call.min_weights, call.max_weights, call.gene_lengths)

\* generate_instances(...) entered: makedirs (which raises for an empty path),
\* combinations, use_overview, use_single
Enter(p, who, av) ==
    /\ pc' = IF p.output_dir = "" THEN "raised" ELSE "cell"
    /\ caller' = who
    /\ argv' = av
    /\ call' = p
    /\ cell' = 1
    /\ dir0' = DOMAIN csv
    /\ generated' = <<>>
    /\ UNCHANGED <<inst, overview_fp, weights, redrawn, csv, overview>>

\* a direct call of generate_instances
GenerateInstances ==
    /\ pc = "idle"
    /\ \E p \in ApiCalls : Enter(p, "api", <<>>)
    /\ UNCHANGED batch

\* main(argv) ends by raising, or calls generate_instances
MainEnds(out, av, who) ==
    /\ out.status # "beyond"
    /\ IF out.status \in {"GetoptError", "ValueError"}
       THEN /\ pc' = "raised"
            /\ caller' = who
            /\ argv' = av
            /\ UNCHANGED <<call, cell, inst, overview_fp, weights, redrawn,
                           csv, overview, dir0, generated>>
       ELSE Enter(out.args, who, av)

\* main(argv): getopt, the option loop, then the call of generate_instances
\* (for command lines whose numbers the model holds)
RunMain(av, who) == MainEnds(MainOutcome(av), av, who)

\* main started from the command line
Main ==
    /\ pc = "idle"
    /\ \E av \in Argvs : RunMain(av, "cli")
    /\ UNCHANGED batch

\* Run_instance_generator.py starts: its loop is about to run these commands
RunBatch ==
    /\ pc = "idle"
    /\ \E runs \in BatchRuns : batch' = runs
    /\ pc' = "batch"
    /\ caller' = "batch"
    /\ UNCHANGED <<argv, call, cell, inst, overview_fp, weights, redrawn,
                   csv, overview, dir0, generated>>

\* one iteration of the driver's loop: subprocess.run(cmd) starts main
BatchInvoke ==
    /\ pc = "batch"
    /\ batch # <<>>
    /\ RunMain(Head(batch), "batch")
    /\ batch' = Tail(batch)

\* the driver's loop is exhausted
BatchExit ==
    /\ pc = "batch"
    /\ batch = <<>>
    /\ pc' = "done"
    /\ UNCHANGED <<caller, argv, batch, call, cell, inst, overview_fp, weights,
                   redrawn, csv, overview, dir0, generated>>

\* for min_w, max_w, length in combinations: open the overview file
BeginCell ==
    /\ pc = "cell"
    /\ cell <= Len(combinations)
    /\ LET c == combinations[cell]
           path == OverviewPath(call.output_dir, c.length, c.min_w, c.max_w, call.discrete)
       IN  IF UseOverview(call.fmt)
           THEN /\ overview' = [q \in DOMAIN overview \cup {path} |->
                                   IF q = path THEN <<>> ELSE overview[q]]
                /\ overview_fp' = path
           ELSE UNCHANGED <<overview, overview_fp>>
    /\ inst' = 0
    /\ pc' = "inst"
    /\ UNCHANGED <<caller, argv, batch, call, cell, weights, redrawn, csv, dir0, generated>>

\* the loop over combinations is exhausted: generate_instances returns (to the
\* driver's loop when the driver started main)
Return ==
    /\ pc = "cell"
    /\ cell > Len(combinations)
    /\ pc' = IF caller = "batch" THEN "batch" ELSE "done"
    /\ UNCHANGED <<caller, argv, batch, call, cell, inst, overview_fp, weights, redrawn,
                   csv, overview, dir0, generated>>

\* step 1 of an iteration: the first draw of the chosen sampler
Sample ==
    /\ pc = "inst"
    /\ inst < call.num_instances
    /\ LET c == [combinations[cell] EXCEPT !.min_w = @.val, !.max_w = @.val]
           raises == IF call.pos_percentage = None
                     THEN SampleWeightsRaises(c.min_w, c.max_w, c.length, call.discrete)
                     ELSE SampleWithRatioRaises(c.min_w, c.max_w, c.length,
                              call.pos_percentage[1], call.discrete, call.no_zero)
           draws == IF call.pos_percentage = None
                    THEN SampleWeightsDraws(c.min_w, c.max_w, c.length, call.discrete)
                    ELSE SampleWithRatioDraws(c.min_w, c.max_w, c.length,
                             call.pos_percentage[1], call.discrete, call.no_zero)
       IN  IF raises
           THEN pc' = "raised" /\ UNCHANGED weights
           ELSE /\ \E w \in draws : weights' = w
                /\ pc' = IF call.no_zero THEN "mask" ELSE "derive"
    /\ redrawn' = {}
    /\ UNCHANGED <<caller, argv, batch, call, cell, inst, overview_fp, csv, overview,
                   dir0, generated>>

\* while mask.any(): re-draw the masked positions
Resample ==
    /\ pc = "mask"
    /\ ZeroMask(weights) # {}
    /\ LET c == [combinations[cell] EXCEPT !.min_w = @.val, !.max_w = @.val]
           mask == ZeroMask(weights)
           raises == call.discrete /\
                     RandIntRaises(c.min_w, c.max_w + Scale, Cardinality(mask))
           S == IF call.pos_percentage = None
                THEN SampleWeightsSet(c.min_w, c.max_w, call.discrete)
                ELSE RatioResampleSet(c.min_w, c.max_w, call.discrete, mask)
       IN  IF raises
           THEN pc' = "raised" /\ UNCHANGED <<weights, redrawn>>
           ELSE /\ \E w \in Redraw(weights, mask, S) : weights' = w
                /\ redrawn' = redrawn \cup mask
                /\ pc' = "mask"
    /\ UNCHANGED <<caller, argv, batch, call, cell, inst, overview_fp, csv, overview,
                   dir0, generated>>

\* the mask is empty: the sampler returns weights
SamplerReturn ==
    /\ pc = "mask"
    /\ ZeroMask(weights) = {}
    /\ pc' = "derive"
    /\ UNCHANGED <<caller, argv, batch, call, cell, inst, overview_fp, weights, redrawn,
                   csv, overview, dir0, generated>>

\* steps 2-4 of an iteration: derive gene and fitness, write the CSV, append
\* to the overview file
Persist ==
    /\ pc = "derive"
    /\ LET c == combinations[cell]
           optimal_gene == OptimalGene(weights)
           max_fitness == MaxFitness(weights, optimal_gene)
           file_idx == NextAvailableIndex(DOMAIN csv)
           content == [max_fitness |-> max_fitness, length |-> c.length,
                       min_w |-> c.min_w, max_w |-> c.max_w,
                       discrete |-> call.discrete, no_zero |-> call.no_zero,
                       pos_percentage |-> call.pos_percentage,
                       genes |-> optimal_gene, weights |-> weights]
           block == [genes |-> optimal_gene, weights |-> weights]
       IN  /\ csv' = IF UseSingle(call.fmt)
                     THEN [i \in DOMAIN csv \cup {file_idx} |->
                              IF i = file_idx THEN content ELSE csv[i]]
                     ELSE csv
           /\ overview' = IF UseOverview(call.fmt)
                          THEN [overview EXCEPT ![overview_fp] = Append(@, block)]
                          ELSE overview
           /\ generated' = Append(generated, [cell |-> cell, content |-> content])
    /\ inst' = inst + 1
    /\ pc' = "inst"
    /\ UNCHANGED <<caller, argv, batch, call, cell, overview_fp, weights, redrawn, dir0>>

\* the inner loop is exhausted: close the overview file, next combination
EndCell ==
    /\ pc = "inst"
    /\ inst >= call.num_instances
    /\ overview_fp' = None
    /\ cell' = cell + 1
    /\ pc' = "cell"
    /\ UNCHANGED <<caller, argv, batch, call, inst, weights, redrawn, csv, overview,
                   dir0, generated>>

Next ==
    \/ GenerateInstances
    \/ Main
    \/ RunBatch
    \/ BatchInvoke
    \/ BatchExit
    \/ BeginCell
    \/ Return
    \/ Sample
    \/ Resample
    \/ SamplerReturn
    \/ Persist
    \/ EndCell

Spec == Init /\ [][Next]_vars

\* the random draws are independent: a re-draw in which every masked position
\* comes out non-zero cannot be avoided forever, and the interpreter keeps
\* running the sampler
LuckyResample == Resample /\ ZeroMask(weights') = {}

FairSpec == Spec /\ WF_vars(SamplerReturn) /\ WF_vars(LuckyResample)

----------------------------------------------------------------------------
(* Properties *)

Cell == combinations[cell]

\* the sampler has returned `weights` to generate_instances
Sampled == pc = "derive"

Ratio == call.pos_percentage # None

\* contents of the per-instance files the running call has created
NewFiles == {csv[i] : i \in DOMAIN csv \ dir0}

\* the blocks of all overview files
OverviewBlocks == UNION {{overview[q][k] : k \in 1..Len(overview[q])} : q \in DOMAIN overview}

BlockOf(content) == [genes |-> content.genes, weights |-> content.weights]

CellPath(c) ==
    OverviewPath(call.output_dir, combinations[c].length, combinations[c].min_w,
                 combinations[c].max_w, call.discrete)

\* the blocks of the instances generated for the cells that map to path q, in
\* generation order
BlocksFor(q) ==
    LET mine(g) == CellPath(g.cell) = q
        sel == SelectSeq(generated, mine)
    IN  [k \in 1..Len(sel) |-> BlockOf(sel[k].content)]

\* C1: with pos_percentage = P the sampler returns exactly round(P/100 * length)
\* strictly positive weights and every other weight is strictly negative
\* (stated for ranges that hold both signs, min < 0 < max).
C1_ExactPositiveCount ==
    (Sampled /\ Ratio /\ Cell.min_w.val < 0 /\ Cell.max_w.val > 0) =>
        /\ Cardinality({i \in DOMAIN weights : weights[i] > 0})
              = PosCount(call.pos_percentage[1], Cell.length)
        /\ \A i \in DOMAIN weights : weights[i] > 0 \/ weights[i] < 0

\* C2: with discrete = true every weight a sampler returns is a whole number
\* within [min_weight, max_weight] (stated for ranges with min <= max).
C2_DiscreteWithinRange ==
    (Sampled /\ call.discrete /\ Cell.min_w.val <= Cell.max_w.val) =>
        \A i \in DOMAIN weights :
            /\ weights[i] % Scale = 0
            /\ Cell.min_w.val <= weights[i]
            /\ weights[i] <= Cell.max_w.val

\* C3: with no_zero = true no element of a returned weight vector, and of a
\* persisted one, is zero, whichever sampler and representation is used.
C3_NoZero ==
    /\ (Sampled /\ call.no_zero) => \A i \in DOMAIN weights : weights[i] # 0
    /\ \A k \in 1..Len(generated) :
          generated[k].content.no_zero =>
              \A i \in DOMAIN generated[k].content.weights :
                  generated[k].content.weights[i] # 0

C3_Witness ==
    /\ Sampled
    /\ call.no_zero
    /\ redrawn # {}
    /\ Ratio

\* C4: weights and optimal gene of every generated instance have gene_length
\* elements, and bit i is 1 exactly when weights[i] > 0 (0 when weights[i] <= 0).
C4_GeneMatchesWeights ==
    /\ \A k \in 1..Len(generated) :
          LET g == generated[k].content
          IN  /\ Len(g.weights) = combinations[generated[k].cell].length
              /\ Len(g.genes) = combinations[generated[k].cell].length
              /\ g.length = combinations[generated[k].cell].length
              /\ \A i \in 1..Len(g.genes) :
                    /\ g.genes[i] \in {0, 1}
                    /\ g.genes[i] = 1 <=> g.weights[i] > 0
                    /\ g.genes[i] = 0 <=> g.weights[i] <= 0
    /\ \A b \in NewFiles \cup OverviewBlocks :
          /\ Len(b.genes) = Len(b.weights)
          /\ \A i \in 1..Len(b.genes) : b.genes[i] = 1 <=> b.weights[i] > 0

C4_Witness ==
    \E f \in NewFiles :
        /\ \E i \in DOMAIN f.weights : f.weights[i] = 0
        /\ \E i \in DOMAIN f.weights : f.weights[i] > 0

\* C5: the persisted Max Fitness is the sum of the weights at the 1-bits of the
\* optimal gene, and no bit string of that length selects a larger sum.
C5_FitnessIsMaximum ==
    \A f \in NewFiles :
        /\ f.max_fitness = SumSelected(f.weights, f.genes, Len(f.weights))
        /\ \A b \in [1..Len(f.weights) -> {0, 1}] :
              SumSelected(f.weights, b, Len(f.weights)) <= f.max_fitness

C5_Witness ==
    \E f \in NewFiles :
        /\ \E i \in DOMAIN f.weights : f.weights[i] < 0
        /\ \E i \in DOMAIN f.weights : f.weights[i] > 0
        /\ f.max_fitness > 0

\* a step creates at most one per-instance file, under the smallest free
\* index, and leaves every existing file as it was
LowestFreeName ==
    /\ \A i \in DOMAIN csv : i \in DOMAIN csv' /\ csv'[i] = csv[i]
    /\ csv' # csv =>
          \E n \in DOMAIN csv' :
              /\ n \notin DOMAIN csv
              /\ DOMAIN csv' = DOMAIN csv \cup {n}
              /\ \A m \in 0..(n - 1) : m \in DOMAIN csv

\* in a fresh directory the files are instance_0 .. instance_{N-1}, N the number
\* of instances written so far
FreshDirectoryNames ==
    (dir0 = {} /\ UseSingle(call.fmt)) => DOMAIN csv = 0..(Len(generated) - 1)

\* a directory that held no file before the program ran has no gap in its
\* file names, however many calls (the batch driver's runs) wrote into it
FreshDirectoryHasNoGap ==
    (\A i \in DOMAIN csv : csv[i] # OldFile) =>
        DOMAIN csv = 0..(Cardinality(DOMAIN csv) - 1)

\* C6: each per-instance file gets the smallest index N for which no
\* instance_<N>.csv exists, no existing file is ever overwritten, and N
\* instances written into a fresh directory are instance_0 .. instance_{N-1}.
C6_LowestFreeIndex ==
    [][LowestFreeName]_vars /\ []FreshDirectoryNames /\ []FreshDirectoryHasNoGap

C6_Witness ==
    /\ caller = "batch"
    /\ pc = "done"
    /\ dir0 = {0, 1}
    /\ DOMAIN csv = {0, 1, 2}
    /\ csv[1] = OldFile
    /\ csv[0] # OldFile

\* C7: after generate returns with the overview format enabled, the overview
\* file of every sweep cell holds the blocks of all instances generated for the
\* cells of that file name, in generation order (num_instances blocks per cell),
\* also when repeated list values map two cells to one file name.
C7_OverviewHoldsEveryCell ==
    (pc = "done" /\ UseOverview(call.fmt)) =>
        \A c \in 1..Len(combinations) :
            /\ CellPath(c) \in DOMAIN overview
            /\ overview[CellPath(c)] = BlocksFor(CellPath(c))

\* C8: a call that returns has produced num_instances instances for each cell
\* of the cartesian product; fmt 0 creates overview files only, fmt 1 one new
\* per-instance file per instance and no overview file, fmt 2 both.
C8_FormatSelectsArtifacts ==
    pc = "done" =>
        LET cells == Len(call.min_weights) * Len(call.max_weights) * Len(call.gene_lengths)
        IN  /\ Len(combinations) = cells
            /\ Len(generated) = cells * call.num_instances
            /\ \A c \in 1..cells :
                  Cardinality({k \in 1..Len(generated) : generated[k].cell = c})
                      = call.num_instances
            /\ call.fmt = 0 => (DOMAIN csv = dir0 /\ DOMAIN overview # {})
            /\ call.fmt = 1 => DOMAIN overview = {}
            /\ call.fmt \in {0, 2} => \A c \in 1..cells : CellPath(c) \in DOMAIN overview
            /\ call.fmt \in {1, 2} =>
                  /\ Cardinality(DOMAIN csv \ dir0) = cells * call.num_instances
                  /\ NewFiles = {generated[k].content : k \in 1..Len(generated)}

C8_Witness ==
    /\ pc = "done"
    /\ call.fmt = 2
    /\ Len(combinations) = 4
    /\ call.num_instances = 2
    /\ Cardinality(DOMAIN csv \ dir0) = 8

\* the unconstrained sampler is inside its no_zero loop
InZeroLoop == pc = "mask" /\ ~Ratio

Admissible == SampleWeightsSet(Cell.min_w.val, Cell.max_w.val, call.discrete)

\* a pass of the loop re-draws the zero positions only, and the loop is left
\* only when no zero remains
RedrawsZerosOnly ==
    InZeroLoop =>
        /\ \A i \in DOMAIN weights : weights[i] # 0 => weights'[i] = weights[i]
        /\ pc' # "mask" => (ZeroMask(weights) = {} /\ pc' = "derive")
        /\ ZeroMask(weights) = {} => pc' = "derive"

\* with min == max == 0 the loop, once it holds a zero, is never left
StuckOnZero ==
    (InZeroLoop /\ ZeroMask(weights) # {} /\ Cell.min_w.val = 0 /\ Cell.max_w.val = 0)
        => (pc' = "mask" /\ ZeroMask(weights') # {})

\* C9: the unconstrained sampler's no_zero loop re-draws only the zero
\* positions and exits as soon as none remain; under fair draws it terminates
\* whenever the range admits a non-zero value, and it never terminates when
\* min == max == 0.
C9_ZeroLoopTermination ==
    /\ [][RedrawsZerosOnly]_vars
    /\ [][StuckOnZero]_vars
    /\ (InZeroLoop /\ Admissible \ {0} # {}) ~> Sampled

C9_Witness ==
    /\ Sampled
    /\ ~Ratio
    /\ call.no_zero
    /\ redrawn # {}
    /\ redrawn # DOMAIN weights

\* C10: whatever options main accepts, it calls the generator with
\* discrete = true; no real-valued instance is written from the command line.
C10_CliAlwaysDiscrete ==
    (caller \in {"cli", "batch"} /\ cell >= 1) =>
        /\ call.discrete = TRUE
        /\ \A f \in NewFiles : f.discrete = TRUE /\ \A i \in DOMAIN f.weights : f.weights[i] % Scale = 0

C10_Witness ==
    /\ caller = "cli"
    /\ pc = "done"
    /\ \E k \in DOMAIN argv : argv[k] = "-d"
    /\ NewFiles # {}

====
